---- MODULE Spec2Model ----
(***************************************************************************)
(* A model of the tarpn node controller: the NET/ROM routing table and     *)
(* network (src/tarpn/netrom/network.py), the L3 priority queue            *)
(* (src/tarpn/network/__init__.py) and the L3-to-L2 driver                 *)
(* (src/tarpn/datalink/protocol.py).                                       *)
(*                                                                         *)
(* Route qualities are kept in units of 1/256 (QScale): the code computes  *)
(* (q * nq + 128.) / 256. in floating point, and every such value is an    *)
(* exact multiple of 1/256, so the numerator q * nq + 128 is the value.    *)
(***************************************************************************)
EXTENDS Integers, Sequences, FiniteSets, TLC

VARIABLES
    neighbors,      \* RoutingTable.neighbors: call -> Neighbor
    destinations,   \* RoutingTable.destinations: call -> Destination
    our_calls,      \* RoutingTable.our_calls: sequence of calls
    ops,            \* number of routing-table operations made so far (capped)
    sinceUpdate,    \* prune_routes calls since the last update_routes call
    installed,      \* <<dest, key>> of the routes holding default_obs after the last update
    last,           \* the last routing-table call and what it returned
    heap,           \* L3PriorityQueue._queue.queue: the heap list of queue.PriorityQueue
    accepted,       \* number of payloads offer() has accepted so far
    q_last,         \* the last queue call and what it returned
    drv_pc,         \* L2L3Driver.iter_loop: where the driver thread stands
    drv_payload,    \* iter_loop's payload
    drv_sent,       \* iter_loop's sent
    retry_backoff,  \* L2L3Driver.retry_backoff: the next wait and the total waited
    drv_calls,      \* L2.send_packet calls made for the current payload
    drv_sleeps,     \* backoff sleeps made for the current payload
    drv_ready,      \* whether the L2 was ready to accept when some sleep ended
    l2_busy,        \* whether the L2 refuses a send_packet made now
    data_links,     \* NetRomNetwork.data_links: port -> DataLink (by its link_call)
    net_ops,        \* number of bind_data_link and _update_nodes calls made so far
    net_last,       \* the last NetRomNetwork.handle call and what it did
    l3,             \* DataLinkManager.l3: protocol -> L3Handler, in insertion order
    stopped,        \* DataLinkManager._stopped
    inbound,        \* DataLinkManager.inbound: the frames queued
    unfinished,     \* inbound's count of frames put and not yet marked done
    outbound,       \* DataLinkManager.outbound: the frames queued
    put_tasks,      \* the frames of the outbound.put tasks created and not finished
    dl_pc,          \* DataLinkManager.start: where the coroutine stands
    dl_last,        \* the last _loop call that took a frame and what it did
    w_last,         \* the last DataLinkManager.write_packet call and what it returned
    frames_put,     \* number of frames put on inbound so far
    writes,         \* number of write_packet calls made so far
    link_id_counter,\* LinkMultiplexer.link_id_counter: the value next() gives next
    l2_devices,     \* LinkMultiplexer.l2_devices: device id -> L2Protocol
    queues,         \* LinkMultiplexer.queues: device id -> L3Queueing
    logical_links,  \* LinkMultiplexer.logical_links: link id -> L2Protocol
    mux_lock,       \* LinkMultiplexer.lock: the thread holding it, or NoThread
    mux_thr,        \* each thread's place in add_link and its local variables
    returned,       \* the link ids add_link has returned so far, each with its L2
    removed,        \* the link ids remove_link has removed so far
    queues_made,    \* number of queues queue_factory has made so far
    mux_last,       \* the last LinkMultiplexer call that returned and its result
    update_tasks,   \* the _update_nodes tasks created and not yet run, oldest first
    route_lock,     \* NetRomNetwork.route_lock: the task holding it, or NoTask
    bc_pc,          \* NetRomNetwork._broadcast_nodes: where the task stands
    bc_rounds,      \* number of turns of the loop of _broadcast_nodes begun so far
    nl_made,        \* number of maybe_handle_special calls made with the packet alone
    nl_last,        \* the last such call and what it returned
    codec_last      \* the last codec call, its input and what it returned

rtVars == <<neighbors, destinations, our_calls, ops, sinceUpdate, installed, last>>

qVars == <<heap, accepted, q_last>>

drvVars == <<drv_pc, drv_payload, drv_sent, retry_backoff, drv_calls, drv_sleeps,
             drv_ready, l2_busy>>

netVars == <<data_links, net_ops, net_last>>

dlVars == <<l3, stopped, inbound, unfinished, outbound, put_tasks, dl_pc, dl_last,
            w_last, frames_put, writes>>

muxVars == <<link_id_counter, l2_devices, queues, logical_links, mux_lock, mux_thr,
             returned, removed, queues_made, mux_last>>

nlVars == <<update_tasks, route_lock, bc_pc, bc_rounds, nl_made, nl_last>>

codecVars == <<codec_last>>

\* the variables of the components added to the first four
extVars == <<dlVars, muxVars, nlVars, codecVars>>

vars == <<rtVars, qVars, drvVars, netVars, extVars>>

----------------------------------------------------------------------------
(* Bounds of the model *)

\* update_routes calls are made only among the first MaxOps table operations
MaxOps == 3

\* max_size of the L3PriorityQueue under study (the default is 20)
MaxSize == 4

\* payloads accepted by the queue in one run
MaxAccepted == 5

\* bind_data_link and _update_nodes calls of the NET/ROM network in one run
MaxNetOps == 3

----------------------------------------------------------------------------
(* Program constants *)

default_obs == 100
default_quality == 255
min_quality == 50
min_obs == 4
\* the divisor of the quality computation: qualities are stored in 1/QScale
QScale == 256
\* the rounding term of the quality computation
QRound == 128

\* BackoffGenerator(0.500, 1.5, 3.000) and the 20.000 s budget, in microseconds
InitialWait == 500000
MaxWait == 3000000
BackoffBudget == 20000000
\* the factor 1.5 as a fraction
BackoffNum == 3
BackoffDen == 2

\* payload of a maybe_take that returned None
NoPayload == [id |-> 0, link_id |-> 0, qos |-> 0]

\* BackoffGenerator as constructed
BackoffGenerator == [wait |-> InitialWait, total |-> 0]

----------------------------------------------------------------------------
(* Input sets *)

NodeCall == "US"
Stations == {"X", "Y"}
Ports == {0, 1}
\* every call sign of the model: our node, two neighbors, two stations beyond
Calls == Stations \cup {"Z", "W", NodeCall}

NodeDestination(dest_node, dest_alias, best_neighbor, quality) ==
    [dest_node |-> dest_node, dest_alias |-> dest_alias,
     best_neighbor |-> best_neighbor, quality |-> quality]

NetRomNodes(sending_alias, dests) ==
    [sending_alias |-> sending_alias, destinations |-> dests]

\* The NODES broadcasts a neighbor may send.
Adverts ==
    { NetRomNodes("ALPHA", <<>>),
      NetRomNodes("ALPHA", << NodeDestination("Z", "ZED", "W", 192) >>),
      NetRomNodes("ALPHA", << NodeDestination("Z", "ZED", "Y", 50) >>),
      NetRomNodes("ALPHA", << NodeDestination("Z", "ZED", "W", 49) >>),
      NetRomNodes("ALPHA", << NodeDestination("Z", "ZED", NodeCall, 192) >>),
      NetRomNodes("ALPHA", << NodeDestination("X", "XRAY", "X", 192),
                              NodeDestination("Y", "YOKE", "Y", 255) >>) }

----------------------------------------------------------------------------
(* Python dict helpers *)

Range(s) == { s[i] : i \in DOMAIN s }

\* dict.get(k, default)
MapGet(m, k, default) == IF k \in DOMAIN m THEN m[k] ELSE default

\* m[k] = v
MapPut(m, k, v) == [x \in (DOMAIN m) \cup {k} |-> IF x = k THEN v ELSE m[x]]

EmptyMap == [x \in {} |-> 0]

\* neighbor_map is an insertion-ordered dict: a sequence of [key, route]
NmKeys(nm) == { nm[i].key : i \in DOMAIN nm }

NmIndex(nm, k) == CHOOSE i \in DOMAIN nm : nm[i].key = k

NmGet(nm, k, default) == IF k \in NmKeys(nm) THEN nm[NmIndex(nm, k)].route ELSE default

\* an existing key keeps its place, a new key goes last
NmPut(nm, k, r) ==
    IF k \in NmKeys(nm)
    THEN [nm EXCEPT ![NmIndex(nm, k)] = [key |-> k, route |-> r]]
    ELSE Append(nm, [key |-> k, route |-> r])

----------------------------------------------------------------------------
(* Data classes of netrom/network.py *)

Neighbor(call, port, quality) == [call |-> call, port |-> port, quality |-> quality]

Route(dest, next_hop, quality, obsolescence) ==
    [dest |-> dest, next_hop |-> next_hop, quality |-> quality,
     obsolescence |-> obsolescence]

Destination(node_call, node_alias, neighbor_map) ==
    [node_call |-> node_call, node_alias |-> node_alias, neighbor_map |-> neighbor_map]

----------------------------------------------------------------------------
(* RoutingTable *)

\* sorted(..., key=attrgetter("quality"), reverse=True) is stable: an element
\* goes after every element whose quality is not smaller than its own
RECURSIVE InsertByQuality(_, _)
InsertByQuality(s, r) ==
    IF s = <<>> THEN <<r>>
    ELSE IF Head(s).quality >= r.quality
         THEN <<Head(s)>> \o InsertByQuality(Tail(s), r)
         ELSE <<r>> \o s

RECURSIVE SortRoutes(_)
SortRoutes(s) ==
    IF s = <<>> THEN <<>>
    ELSE InsertByQuality(SortRoutes(SubSeq(s, 1, Len(s) - 1)), s[Len(s)])

\* sorted_neighbors without the sort: the routes in insertion order
sorted_neighbors_unsorted(dest) ==
    [i \in DOMAIN dest.neighbor_map |-> dest.neighbor_map[i].route]

\* Destination.sorted_neighbors
sorted_neighbors(dest) ==
    SortRoutes([i \in DOMAIN dest.neighbor_map |-> dest.neighbor_map[i].route])

\* RoutingTable.route, of packet.dest
route(nb, ds, dest) ==
    IF dest \in DOMAIN ds
    THEN LET sn == sorted_neighbors(ds[dest])
         IN [i \in DOMAIN sn |-> sn[i].next_hop]
    ELSE IF dest \in DOMAIN nb THEN <<dest>> ELSE <<>>

\* the quality computed for one advertised destination, in 1/QScale
RouteQuality(oc, neighbor, d) ==
    IF d.best_neighbor \in Range(oc)
    THEN 0
    ELSE d.quality * neighbor.quality + QRound

\* a filter that lets every quality pass
AboveMinQuality_any(rq) == rq >= 0

\* "Only add routes which are above the minimum quality"
AboveMinQuality(rq) == rq > min_quality * QScale

\* the Route written at the key of neighbor.call: an existing Route object
\* keeps its dest and next_hop
UpsertRoute(new_dest, neighbor, d, rq) ==
    LET new_route == NmGet(new_dest.neighbor_map, neighbor.call,
                           Route(d.dest_node, d.best_neighbor, rq, default_obs))
    IN [new_route EXCEPT !.quality = rq, !.obsolescence = default_obs]

\* one turn of the loop over nodes.destinations
UpdateOne(ds, oc, neighbor, d) ==
    LET rq == RouteQuality(oc, neighbor, d)
    IN IF AboveMinQuality(rq)
       THEN LET new_dest == MapGet(ds, d.dest_node,
                                   Destination(d.dest_node, d.dest_alias, <<>>))
                nm == NmPut(new_dest.neighbor_map, neighbor.call,
                            UpsertRoute(new_dest, neighbor, d, rq))
            IN MapPut(ds, d.dest_node, [new_dest EXCEPT !.neighbor_map = nm])
       ELSE ds

RECURSIVE UpdateAll(_, _, _, _)
UpdateAll(ds, oc, neighbor, recs) ==
    IF recs = <<>> THEN ds
    ELSE UpdateAll(UpdateOne(ds, oc, neighbor, Head(recs)), oc, neighbor, Tail(recs))

\* the direct route to whoever sent the NODES
DirectRoute(heard_from) ==
    Route(heard_from, heard_from, default_quality * QScale, default_obs)

\* RoutingTable.update_routes: the neighbors and destinations it leaves
update_routes(nb, ds, oc, heard_from, heard_on_port, nodes) ==
    LET neighbor == MapGet(nb, heard_from,
                           Neighbor(heard_from, heard_on_port, default_quality))
        dest == MapGet(ds, heard_from,
                       Destination(heard_from, nodes.sending_alias, <<>>))
        dest1 == [dest EXCEPT !.neighbor_map =
                     NmPut(@, heard_from, DirectRoute(heard_from))]
    IN [neighbors |-> MapPut(nb, heard_from, neighbor),
        destinations |-> UpdateAll(MapPut(ds, heard_from, dest1), oc, neighbor,
                                   nodes.destinations)]

\* the removal test off by one: a route is kept at obsolescence 0
Expired_strict(r) == r.obsolescence < 0

\* "if route.obsolescence <= 0"
Expired(r) == r.obsolescence <= 0

\* the inner loop of prune_routes over one neighbor_map
PruneMap(nm) ==
    SelectSeq([i \in DOMAIN nm |->
                  [nm[i] EXCEPT !.route.obsolescence = @ - 1]],
              LAMBDA e : ~Expired(e.route))

\* prune_routes looking for emptied destinations only on the next call
prune_routes_late(nb, ds) ==
    LET dead == { c \in DOMAIN ds : Len(ds[c].neighbor_map) = 0 }
    IN [neighbors |-> [c \in (DOMAIN nb) \ dead |-> nb[c]],
        destinations |-> [c \in (DOMAIN ds) \ dead |->
                            [ds[c] EXCEPT !.neighbor_map = PruneMap(@)]]]

\* RoutingTable.prune_routes: the neighbors and destinations it leaves
prune_routes(nb, ds) ==
    LET pruned == [c \in DOMAIN ds |->
                      [ds[c] EXCEPT !.neighbor_map = PruneMap(@)]]
        dead == { c \in DOMAIN ds : Len(pruned[c].neighbor_map) = 0 }
    IN [neighbors |-> [c \in (DOMAIN nb) \ dead |-> nb[c]],
        destinations |-> [c \in (DOMAIN ds) \ dead |-> pruned[c]]]

\* config.node_alias(), the alias the RoutingTable is constructed with
node_alias == "HOME"

\* NodeDestination.__post_init__: self.quality = int(self.quality), of a
\* quality held in 1/QScale
IntOf(quality) == quality \div QScale

\* the inner loop of get_nodes: the first of sorted_neighbors() whose
\* obsolescence is not below min_obs, as a list of at most one route
BestNeighbor(dest) ==
    LET good == SelectSeq(sorted_neighbors(dest),
                          LAMBDA r : r.obsolescence >= min_obs)
    IN IF good = <<>> THEN <<>> ELSE <<Head(good)>>

\* the outer loop of get_nodes over the destinations in todo
RECURSIVE NodeDestinations(_, _)
NodeDestinations(ds, todo) ==
    IF todo = {} THEN <<>>
    ELSE LET c == CHOOSE x \in todo : TRUE
             best == BestNeighbor(ds[c])
         IN (IF best = <<>> THEN <<>>
             ELSE << NodeDestination(ds[c].node_call, ds[c].node_alias,
                                     best[1].next_hop, IntOf(best[1].quality)) >>)
            \o NodeDestinations(ds, todo \ {c})

\* RoutingTable.get_nodes
get_nodes(ds) == NetRomNodes(node_alias, NodeDestinations(ds, DOMAIN ds))

\* every stored route, as <<dest, key>>
RouteKeys(ds) ==
    UNION { { <<c, k>> : k \in NmKeys(ds[c].neighbor_map) } : c \in DOMAIN ds }

StoredRoute(ds, c, k) == NmGet(ds[c].neighbor_map, k, Route(c, k, 0, 0))

----------------------------------------------------------------------------
(* The routing table under update_routes, prune_routes and route *)

\* prune_routes is followed until the table has long been empty
PruneHorizon == default_obs + 2

Bump(n) == IF n < MaxOps THEN n + 1 ELSE n

\* the state after construction, the routing table knowing the calls oc
InitWith(oc) ==
    /\ neighbors = EmptyMap
    /\ destinations = EmptyMap
    /\ our_calls = oc
    /\ ops = 0
    /\ sinceUpdate = 0
    /\ installed = {}
    /\ last = [op |-> "init"]
    /\ heap = <<>>
    /\ accepted = 0
    /\ q_last = [op |-> "init"]
    /\ drv_pc = "take"
    /\ drv_payload = NoPayload
    /\ drv_sent = FALSE
    /\ retry_backoff = BackoffGenerator
    /\ drv_calls = 0
    /\ drv_sleeps = 0
    /\ drv_ready = FALSE
    /\ l2_busy = FALSE
    /\ data_links = EmptyMap
    /\ net_ops = 0
    /\ net_last = [op |-> "init"]
    /\ l3 = <<>>
    /\ stopped = FALSE
    /\ inbound = <<>>
    /\ unfinished = 0
    /\ outbound = <<>>
    /\ put_tasks = <<>>
    /\ dl_pc = "new"
    /\ dl_last = [op |-> "init"]
    /\ w_last = [op |-> "init"]
    /\ frames_put = 0
    /\ writes = 0
    /\ link_id_counter = 0
    /\ l2_devices = EmptyMap
    /\ queues = EmptyMap
    /\ logical_links = EmptyMap
    /\ mux_lock = "none"
    /\ mux_thr = [t \in {"t1", "t2"} |->
                    [pc |-> "idle", l2_protocol |-> [none |-> TRUE], link_id |-> -1,
                     floor |-> -1]]
    /\ returned = EmptyMap
    /\ removed = {}
    /\ queues_made = 0
    /\ mux_last = [op |-> "init"]
    /\ update_tasks = <<>>
    /\ route_lock = "none"
    /\ bc_pc = "sleep"
    /\ bc_rounds = 0
    /\ nl_made = 0
    /\ nl_last = [op |-> "init"]
    /\ codec_last = [op |-> "init"]

\* a RoutingTable constructed with our node call among our_calls
Init == InitWith(<<NodeCall>>)

RtUpdate ==
    /\ ops < MaxOps
    /\ \E heard_from \in Stations, port \in Ports, nodes \in Adverts :
          LET t == update_routes(neighbors, destinations, our_calls,
                                 heard_from, port, nodes)
          IN /\ neighbors' = t.neighbors
             /\ destinations' = t.destinations
             /\ installed' = { rk \in RouteKeys(t.destinations) :
                      StoredRoute(t.destinations, rk[1], rk[2]).obsolescence
                          = default_obs }
             /\ last' = [op |-> "update", heard_from |-> heard_from,
                         port |-> port, nodes |-> nodes]
    /\ ops' = Bump(ops)
    /\ sinceUpdate' = 0
    /\ UNCHANGED <<our_calls, qVars, drvVars, netVars, extVars>>

RtPrune ==
    /\ sinceUpdate < PruneHorizon
    /\ LET t == prune_routes(neighbors, destinations)
       IN /\ neighbors' = t.neighbors
          /\ destinations' = t.destinations
    /\ ops' = Bump(ops)
    /\ sinceUpdate' = sinceUpdate + 1
    /\ last' = [op |-> "prune"]
    /\ UNCHANGED <<our_calls, installed, qVars, drvVars, netVars, extVars>>

RtRoute ==
    /\ ops < MaxOps
    /\ \E dest \in Calls :
          last' = [op |-> "route", dest |-> dest,
                   hops |-> route(neighbors, destinations, dest)]
    /\ UNCHANGED <<neighbors, destinations, our_calls, ops, sinceUpdate, installed>>
    /\ UNCHANGED <<qVars, drvVars, netVars, extVars>>

\* RoutingTable.get_nodes, called at any time
RtGetNodes ==
    /\ last' = [op |-> "get_nodes", nodes |-> get_nodes(destinations)]
    /\ UNCHANGED <<neighbors, destinations, our_calls, ops, sinceUpdate, installed>>
    /\ UNCHANGED <<qVars, drvVars, netVars, extVars>>

RtNext == RtUpdate \/ RtPrune \/ RtRoute \/ RtGetNodes

SpecRT == Init /\ [][RtNext]_vars

----------------------------------------------------------------------------
(* Properties of the routing table *)

Recs == last.nodes.destinations

\* the record of the broadcast that is processed last for its destination
LastFor(i) == \A j \in DOMAIN Recs : Recs[j].dest_node = Recs[i].dest_node => j <= i

\* (q * neighbor_quality + 128) / 256 as an integer
IntQuality(q, nq) == (q * nq + QRound) \div QScale

\* C6: after update_routes, every advertised destination whose best neighbor is
\* not one of our calls and whose integer quality (q * nq + 128) / 256 is above
\* min_quality has a route via heard_from whose stored quality is that integer,
\* in 0..255, with obsolescence 100 (192 heard from a neighbor of 255 gives 192).
C6_IntegerQuality ==
    last.op = "update" =>
        \A i \in DOMAIN Recs :
            LET d == Recs[i]
                iq == IntQuality(d.quality, neighbors[last.heard_from].quality)
            IN (d.best_neighbor \notin Range(our_calls) /\ iq > min_quality /\ LastFor(i))
               => /\ <<d.dest_node, last.heard_from>> \in RouteKeys(destinations)
                  /\ iq \in 0..255
                  /\ StoredRoute(destinations, d.dest_node, last.heard_from).quality
                        = iq * QScale
                  /\ StoredRoute(destinations, d.dest_node, last.heard_from).obsolescence
                        = default_obs

\* C7: every stored route has quality > min_quality and obsolescence in
\* 1..default_obs, in every state update_routes and prune_routes reach.
C7_QualityBound ==
    \A rk \in RouteKeys(destinations) :
        LET r == StoredRoute(destinations, rk[1], rk[2])
        IN /\ r.quality > min_quality * QScale
           /\ r.obsolescence \in 1..default_obs

\* a route of the lowest quality that passes the filter, one prune from removal
C7_Witness ==
    \E rk \in RouteKeys(destinations) :
        LET r == StoredRoute(destinations, rk[1], rk[2])
        IN /\ r.obsolescence = 1
           /\ r.quality = 50 * default_quality + QRound
           /\ last.op = "prune"

OnlyRouteOf(ds, rk) ==
    /\ rk[1] \in DOMAIN ds
    /\ NmKeys(ds[rk[1]].neighbor_map) = {rk[2]}

\* a route installed with default_obs and not refreshed is present after up to
\* 99 prune_routes calls and absent after the 100th
C8_RouteDecay ==
    \A rk \in installed :
        /\ sinceUpdate <= default_obs - 1 => rk \in RouteKeys(destinations)
        /\ sinceUpdate >= default_obs => rk \notin RouteKeys(destinations)

\* the 100th prune_routes call since the route was installed
HundredthPrune == sinceUpdate = default_obs - 1 /\ sinceUpdate' = default_obs

\* C8 as stated: the route is present after 99 prune_routes calls and removed by
\* the 100th; a destination for which it was the only route is still present
\* after the 100th call.
C8_AsStated ==
    /\ []C8_RouteDecay
    /\ [][\A rk \in installed :
            (HundredthPrune /\ OnlyRouteOf(destinations, rk))
                => rk[1] \in DOMAIN destinations']_vars

\* C8 (amended): the route is present after 99 prune_routes calls and removed by
\* the 100th; a destination for which it was the only route is removed by that
\* same 100th call.
C8_PruneDecay ==
    /\ []C8_RouteDecay
    /\ [][\A rk \in installed :
            (HundredthPrune /\ OnlyRouteOf(destinations, rk))
                => rk[1] \notin DOMAIN destinations']_vars

\* the 100th prune after a broadcast that installed a route to Z has been made
C8_Witness ==
    /\ sinceUpdate = default_obs
    /\ \E rk \in installed : rk[1] = "Z"
    /\ destinations = EmptyMap

\* C9: right after update_routes(heard_from, port, nodes), heard_from is a
\* neighbor and destination heard_from has a route via heard_from with quality
\* 255 and obsolescence 100, whatever nodes holds.
C9_DirectRoute ==
    last.op = "update" =>
        /\ last.heard_from \in DOMAIN neighbors
        /\ <<last.heard_from, last.heard_from>> \in RouteKeys(destinations)
        /\ StoredRoute(destinations, last.heard_from, last.heard_from)
              = DirectRoute(last.heard_from)

\* what route() is to return for dest, given the table
RouteOk(nb, ds, dest, hops) ==
    IF dest \in DOMAIN ds
    THEN LET nm == ds[dest].neighbor_map
         IN /\ Len(hops) = Len(nm)
            /\ \E p \in Permutations(DOMAIN nm) :
                  /\ \A i \in DOMAIN nm : hops[i] = nm[p[i]].route.next_hop
                  /\ \A i, j \in DOMAIN nm :
                        i < j => nm[p[i]].route.quality >= nm[p[j]].route.quality
    ELSE hops = IF dest \in DOMAIN nb THEN <<dest>> ELSE <<>>

\* C10: route(packet) returns one hop per stored route of packet.dest in
\* non-increasing order of quality, [packet.dest] for an unknown destination
\* that is a neighbor and the empty list otherwise; a route() call leaves the
\* routing table as it was.
C10_Route ==
    /\ [](\A dest \in Calls :
            RouteOk(neighbors, destinations, dest, route(neighbors, destinations, dest)))
    /\ [][(last'.op = "route" /\ last' # last) =>
            /\ UNCHANGED <<neighbors, destinations, our_calls>>
            /\ RouteOk(neighbors', destinations', last'.dest, last'.hops)]_vars

\* route() was called for a destination whose second-inserted route is the better
C10_Witness ==
    /\ last.op = "route"
    /\ last.dest \in DOMAIN destinations
    /\ LET nm == destinations[last.dest].neighbor_map
       IN /\ Len(nm) = 2
          /\ nm[1].route.quality < nm[2].route.quality
          /\ nm[1].route.next_hop # nm[2].route.next_hop
          /\ last.hops = <<nm[2].route.next_hop, nm[1].route.next_hop>>

\* the routes of destination c that get_nodes may advertise
Advertisable(ds, c) ==
    { r \in Range(sorted_neighbors(ds[c])) : r.obsolescence >= min_obs }

\* the records get_nodes returned for destination c
RecordsFor(nodes, c) ==
    { i \in DOMAIN nodes.destinations : nodes.destinations[i].dest_node = c }

\* a record that carries the next hop and the quality of a best advertisable route
BestOf(ds, c, rec) ==
    \E r \in Advertisable(ds, c) :
        /\ \A o \in Advertisable(ds, c) : o.quality <= r.quality
        /\ rec.best_neighbor = r.next_hop
        /\ rec.quality * QScale = r.quality

\* C11: get_nodes returns exactly one record for each destination that has a
\* route with obsolescence >= min_obs, carrying the next hop and the quality of
\* the best such route, and no record for a destination whose routes all have
\* obsolescence < min_obs.
C11_GetNodes ==
    last.op = "get_nodes" =>
        \A c \in Calls :
            IF c \in DOMAIN destinations /\ Advertisable(destinations, c) # {}
            THEN /\ Cardinality(RecordsFor(last.nodes, c)) = 1
                 /\ \A i \in RecordsFor(last.nodes, c) :
                       BestOf(destinations, c, last.nodes.destinations[i])
            ELSE RecordsFor(last.nodes, c) = {}

\* the record is a trivial loop, or the quality (q * nq + 128.) / 256.
\* computed for it is at most min_quality
Skips(d, nq) ==
    \/ d.best_neighbor \in Range(our_calls)
    \/ d.quality * nq + QRound <= min_quality * QScale

\* the broadcast without its i-th record
Without(nodes, i) ==
    NetRomNodes(nodes.sending_alias,
                SubSeq(nodes.destinations, 1, i - 1)
                  \o SubSeq(nodes.destinations, i + 1, Len(nodes.destinations)))

\* C28: a record of the broadcast whose best_neighbor is one of our_calls, or
\* whose computed route quality is at most min_quality, changes nothing:
\* update_routes leaves the destinations it would leave had the record not
\* been in the broadcast, so the record creates no destination or route and
\* leaves the quality and obsolescence of a stored route as they were.
C28_SkippedRecords ==
    [][(ops' = ops + 1 /\ last'.op = "update") =>
         LET nodes == last'.nodes
             heard_from == last'.heard_from
         IN \A i \in DOMAIN nodes.destinations :
               Skips(nodes.destinations[i], neighbors'[heard_from].quality) =>
                  destinations' = update_routes(neighbors, destinations, our_calls,
                                                heard_from, last'.port,
                                                Without(nodes, i)).destinations]_vars

\* update_routes was given a trivial loop for a destination whose route via
\* heard_from was stored and had aged
C28_Witness ==
    /\ last.op = "update"
    /\ \E i \in DOMAIN Recs :
          /\ Recs[i].best_neighbor \in Range(our_calls)
          /\ <<Recs[i].dest_node, last.heard_from>> \in RouteKeys(destinations)
          /\ StoredRoute(destinations, Recs[i].dest_node, last.heard_from).obsolescence
                < default_obs

\* C29: every stored route for a destination learned from heard_from has
\* next_hop = heard_from, and every call route() returns is a key of neighbors,
\* in every state update_routes and prune_routes reach.
C29_NextHopsAreNeighbors ==
    /\ \A rk \in RouteKeys(destinations) :
          StoredRoute(destinations, rk[1], rk[2]).next_hop = rk[2]
    /\ \A dest \in Calls :
          Range(route(neighbors, destinations, dest)) \subseteq DOMAIN neighbors

----------------------------------------------------------------------------
(* L3PriorityQueue: queue.PriorityQueue over heapq *)

\* QoS: Highest = 0 .. Lowest = 4
QoS == 0..4

\* L3Payload, by the fields the queue and the driver read; id is the rank of
\* the payload among the accepted offers
L3Payload(id, link_id, qos) == [id |-> id, link_id |-> link_id, qos |-> qos]

\* the comparison inverted: a larger qos value sorts first
PayloadLt_inverted(a, b) == a.qos > b.qos

\* L3Payload.__lt__ of dataclass(order=True): qos is the only compared field
PayloadLt(a, b) == a.qos < b.qos

\* heapq._siftdown(heap, startpos, pos), positions from 0
RECURSIVE SiftDown(_, _, _, _)
SiftDown(h, startpos, pos, newitem) ==
    IF pos > startpos
    THEN LET parentpos == (pos - 1) \div 2
             parent == h[parentpos + 1]
         IN IF PayloadLt(newitem, parent)
            THEN SiftDown([h EXCEPT ![pos + 1] = parent], startpos, parentpos, newitem)
            ELSE [h EXCEPT ![pos + 1] = newitem]
    ELSE [h EXCEPT ![pos + 1] = newitem]

\* heapq._siftup(heap, pos): the smaller child bubbles up to the leaf, then
\* newitem is sifted down from there
RECURSIVE SiftUp(_, _, _, _)
SiftUp(h, startpos, pos, newitem) ==
    LET endpos == Len(h)
        childpos == 2 * pos + 1
        rightpos == childpos + 1
    IN IF childpos < endpos
       THEN LET c == IF rightpos < endpos /\ ~PayloadLt(h[childpos + 1], h[rightpos + 1])
                     THEN rightpos ELSE childpos
            IN SiftUp([h EXCEPT ![pos + 1] = h[c + 1]], startpos, c, newitem)
       ELSE SiftDown([h EXCEPT ![pos + 1] = newitem], startpos, pos, newitem)

\* heapq.heappush
HeapPush(h, item) == SiftDown(Append(h, item), 0, Len(h), item)

\* heapq.heappop: the item returned and the heap left
HeapPop(h) ==
    LET lastelt == h[Len(h)]
        rest == SubSeq(h, 1, Len(h) - 1)
    IN IF rest # <<>>
       THEN [item |-> rest[1], heap |-> SiftUp([rest EXCEPT ![1] = lastelt], 0, 0, lastelt)]
       ELSE [item |-> lastelt, heap |-> rest]

\* the test for Full off by one: one payload more than maxsize is let in
QueueFull_late(h) == Len(h) > MaxSize

\* queue.PriorityQueue.put(item, False): Full when qsize() >= maxsize
QueueFull(h) == Len(h) >= MaxSize

\* L3PriorityQueue.offer of a payload whose qos is in qs
Offer(qs) ==
    /\ accepted < MaxAccepted
    /\ \E qos \in qs :
          LET p == L3Payload(accepted + 1, 0, qos)
          IN IF QueueFull(heap)
             THEN /\ q_last' = [op |-> "offer", ok |-> FALSE, p |-> p]
                  /\ UNCHANGED <<heap, accepted>>
             ELSE /\ heap' = HeapPush(heap, p)
                  /\ accepted' = accepted + 1
                  /\ q_last' = [op |-> "offer", ok |-> TRUE, p |-> p]
    /\ UNCHANGED <<rtVars, netVars, extVars>>

QOffer == Offer(QoS) /\ UNCHANGED drvVars

\* L3PriorityQueue.maybe_take with a payload queued
QTake ==
    /\ heap # <<>>
    /\ LET r == HeapPop(heap)
       IN /\ heap' = r.heap
          /\ q_last' = [op |-> "take", p |-> r.item]
    /\ UNCHANGED <<accepted, rtVars, drvVars, netVars, extVars>>

\* L3PriorityQueue.maybe_take: queue.Empty after the 1.0 s wait
QTakeNone ==
    /\ heap = <<>>
    /\ q_last' = [op |-> "take_none"]
    /\ UNCHANGED <<heap, accepted, rtVars, drvVars, netVars, extVars>>

QNext == QOffer \/ QTake \/ QTakeNone

SpecQueue == Init /\ [][QNext]_vars

\* C2: of two queued payloads with equal qos, the one accepted first is
\* returned by maybe_take first: a payload just taken leaves no earlier payload
\* of its own qos behind in the queue.
C2_FifoWithinQos ==
    q_last.op = "take" =>
        \A i \in DOMAIN heap :
            ~(heap[i].qos = q_last.p.qos /\ heap[i].id < q_last.p.id)

\* C3: whenever maybe_take returns a payload p, no payload in the queue has a
\* numerically smaller qos than p.
C3_PriorityDiscipline ==
    q_last.op = "take" =>
        \A i \in DOMAIN heap : heap[i].qos >= q_last.p.qos

\* a take that overtook: the payload returned was offered after one of lower
\* priority that is still queued, with the queue full before the take
C3_Witness ==
    /\ q_last.op = "take"
    /\ Len(heap) = MaxSize - 1
    /\ \E i \in DOMAIN heap : heap[i].qos > q_last.p.qos /\ heap[i].id < q_last.p.id

\* what an offer, a maybe_take that returns a payload and a maybe_take that
\* returns None do to the queue
QueueStep ==
    /\ (q_last'.op = "offer" /\ q_last' # q_last) =>
          IF Len(heap) < MaxSize
          THEN /\ q_last'.ok
               /\ Range(heap') = Range(heap) \cup {q_last'.p}
               /\ Len(heap') = Len(heap) + 1
          ELSE /\ ~q_last'.ok
               /\ heap' = heap
    /\ (q_last'.op = "take" /\ heap' # heap) =>
          /\ q_last'.p \in Range(heap)
          /\ Range(heap') = Range(heap) \ {q_last'.p}
          /\ Len(heap') = Len(heap) - 1
    /\ (q_last'.op = "take_none" /\ q_last' # q_last) => (heap = <<>> /\ heap' = <<>>)
    /\ heap' # heap => q_last'.op \in {"offer", "take"}

\* C18: the queue never holds more than max_size payloads; offer returns true
\* and adds the payload iff fewer than max_size are queued, and otherwise
\* returns false and leaves the queue as it was; maybe_take returns None only
\* on an empty queue, and a payload it returns leaves the queue, so that each
\* accepted payload is returned by one maybe_take.
C18_Bounded ==
    /\ [](Len(heap) <= MaxSize)
    /\ [](Cardinality(Range(heap)) = Len(heap))
    /\ [][QueueStep]_vars

\* an offer was refused on a full queue holding payloads of several qos
C18_Witness ==
    /\ q_last.op = "offer"
    /\ ~q_last.ok
    /\ Len(heap) = MaxSize
    /\ \E i, j \in DOMAIN heap : heap[i].qos # heap[j].qos

----------------------------------------------------------------------------
(* L2L3Driver *)

\* next(retry_backoff): the wait handed out and the generator left
BackoffNext(b) ==
    LET grown == (b.wait * BackoffNum) \div BackoffDen
    IN [value |-> b.wait,
        gen |-> [wait |-> IF grown < MaxWait THEN grown ELSE MaxWait,
                 total |-> b.total + b.wait]]

\* retry_backoff.reset()
BackoffReset(b) == BackoffGenerator

\* the qos values of the payloads offered to the driver's queue
DrvQoS == {0, 2}

DrvOffer == Offer(DrvQoS) /\ UNCHANGED drvVars

\* the link becomes busy or free (link busy, peer choked)
L2Toggle ==
    /\ l2_busy' = ~l2_busy
    /\ UNCHANGED <<rtVars, netVars, extVars, qVars, drv_pc, drv_payload, drv_sent, retry_backoff,
                   drv_calls, drv_sleeps, drv_ready>>

\* payload = self.queue.maybe_take(); if payload is not None
DrvTake ==
    /\ drv_pc = "take"
    /\ IF heap = <<>>
       THEN /\ q_last' = [op |-> "take_none"]
            /\ UNCHANGED <<heap, drv_pc, drv_payload>>
       ELSE LET r == HeapPop(heap)
            IN /\ heap' = r.heap
               /\ q_last' = [op |-> "take", p |-> r.item]
               /\ drv_payload' = r.item
               /\ drv_pc' = "send"
    /\ drv_calls' = 0
    /\ drv_sleeps' = 0
    /\ drv_ready' = FALSE
    /\ UNCHANGED <<rtVars, netVars, extVars, accepted, drv_sent, retry_backoff, l2_busy>>

\* sent = self.l2.send_packet(payload)
DrvSend ==
    /\ drv_pc = "send"
    /\ drv_sent' = ~l2_busy
    /\ drv_calls' = drv_calls + 1
    /\ drv_pc' = "while"
    /\ UNCHANGED <<rtVars, netVars, extVars, qVars, drv_payload, retry_backoff, drv_sleeps, drv_ready,
                   l2_busy>>

\* the loop condition without the budget: the loop goes on until sent
WhileCondition_unsent == ~drv_sent

\* while not sent and self.retry_backoff.total() < 20.000
WhileCondition == ~drv_sent /\ retry_backoff.total < BackoffBudget

\* the body of the while loop: sleep(next(self.retry_backoff)), then the
\* condition is tested again
DrvSleep ==
    /\ drv_pc = "while"
    /\ WhileCondition
    /\ retry_backoff' = BackoffNext(retry_backoff).gen
    /\ drv_sleeps' = drv_sleeps + 1
    /\ drv_ready' = (drv_ready \/ ~l2_busy)
    /\ UNCHANGED <<rtVars, netVars, extVars, qVars, drv_pc, drv_payload, drv_sent, drv_calls, l2_busy>>

\* the loop is left
DrvLeave ==
    /\ drv_pc = "while"
    /\ ~WhileCondition
    /\ drv_pc' = "end"
    /\ UNCHANGED <<rtVars, netVars, extVars, qVars, drv_payload, drv_sent, retry_backoff, drv_calls,
                   drv_sleeps, drv_ready, l2_busy>>

\* the warning if not sent, and self.retry_backoff.reset()
DrvEnd ==
    /\ drv_pc = "end"
    /\ retry_backoff' = BackoffReset(retry_backoff)
    /\ drv_pc' = "take"
    /\ UNCHANGED <<rtVars, netVars, extVars, qVars, drv_payload, drv_sent, drv_calls, drv_sleeps,
                   drv_ready, l2_busy>>

DrvNext == DrvOffer \/ L2Toggle \/ DrvTake \/ DrvSend \/ DrvSleep \/ DrvLeave \/ DrvEnd

SpecDrv == Init /\ [][DrvNext]_vars

\* C1: when send_packet returned false, the driver calls send_packet again for
\* the same payload after each backoff sleep, and a payload that the L2 would
\* have accepted when some sleep ended is sent when the iteration ends.
C1_RetryAfterSleep ==
    /\ drv_pc = "while" => drv_calls = drv_sleeps + 1
    /\ (drv_pc = "end" /\ drv_ready) => drv_sent

\* the driver thread runs: send_packet and sleep return, and the loop goes on
SpecDrvFair ==
    SpecDrv /\ WF_vars(DrvSend) /\ WF_vars(DrvSleep) /\ WF_vars(DrvLeave)
            /\ WF_vars(DrvEnd)

\* a backoff sleep starts only below the budget and adds at least the initial
\* wait to the total
SleepStep ==
    drv_sleeps' = drv_sleeps + 1 =>
        /\ retry_backoff.total < BackoffBudget
        /\ retry_backoff'.total >= retry_backoff.total + InitialWait

\* C22: whatever the L2 does, iter_loop ends once the accumulated backoff has
\* reached the budget; the payload it took is not put back on the queue; and
\* the backoff is reset, so that the next payload starts at the initial wait
\* with the whole budget.
C22_BudgetExhaustion ==
    /\ [](drv_pc \in {"take", "send"} => retry_backoff = BackoffGenerator)
    /\ [](\A i \in DOMAIN heap : heap[i].id # drv_payload.id)
    /\ [](retry_backoff.total < BackoffBudget + MaxWait)
    /\ [][SleepStep]_vars
    /\ (drv_pc = "send") ~> (drv_pc = "take")

\* an iteration has ended on a payload the L2 refused, after the backoff
\* sleeps, with payloads still queued and the backoff reset
C22_Witness ==
    /\ drv_pc = "take"
    /\ drv_calls = 1
    /\ ~drv_sent
    /\ drv_sleeps * MaxWait >= BackoffBudget
    /\ retry_backoff = BackoffGenerator
    /\ heap # <<>>

----------------------------------------------------------------------------
(* NET/ROM packets *)

\* a NET/ROM packet on the wire: the fields in the order buffer() writes them,
\* a call sign (seven bytes) taken as one element
NetRomPacket(dest, source, ttl, circuit_idx, circuit_id, tx_seq_num, rx_seq_num, op_byte) ==
    [dest |-> dest, source |-> source, ttl |-> ttl, circuit_idx |-> circuit_idx,
     circuit_id |-> circuit_id, tx_seq_num |-> tx_seq_num, rx_seq_num |-> rx_seq_num,
     op_byte |-> op_byte, tail |-> <<>>]

\* NetRomPacket.buffer and the buffer of its subclasses, whose extra fields
\* are kept in tail in the order they are written
Buffer(p) ==
    <<p.source, p.dest, p.ttl, p.circuit_idx, p.circuit_id, p.tx_seq_num,
      p.rx_seq_num, p.op_byte>> \o p.tail

\* OpType.create: the low nibble if it is a member, else Unknown (0)
OpTypeCreate(op_byte) ==
    LET masked == op_byte % 16
    IN IF masked \in 0..6 THEN masked ELSE 0

\* the value of a call that returned nothing
None == [none |-> TRUE]

\* parse_netrom_packet, of data holding a whole header: the function returns
\* no value when the op type is Unknown
parse_netrom_packet(data) ==
    LET op_type == OpTypeCreate(data[8])
        header == NetRomPacket(data[2], data[1], data[3], data[4], data[5],
                               data[6], data[7], data[8])
    IN IF op_type = 1 THEN [header EXCEPT !.tail = SubSeq(data, 9, 11)]
       ELSE IF op_type = 2 THEN [header EXCEPT !.tail = SubSeq(data, 9, 9)]
       ELSE IF op_type = 5 THEN [header EXCEPT !.tail = SubSeq(data, 9, Len(data))]
       ELSE IF op_type \in {6, 3, 4} THEN header
       ELSE None

----------------------------------------------------------------------------
(* The codecs of NET/ROM packets and of NODES broadcasts *)

\* the op bytes: every low nibble with no flag, with one flag and with all three
OpBytes == { n + f : n \in 0..15, f \in {0, 32, 64, 128, 224} }

\* the packet of the class that goes with OpType.create(op_byte), a plain
\* NetRomPacket for Unknown: a window size and two calls after the header of a
\* NetRomConnectRequest, a window size for a NetRomConnectAck, info for a NetRomInfo
WellFormed(dest, ttl, op_byte) ==
    LET header == NetRomPacket(dest, "S", ttl, 1, 255, 0, 7, op_byte)
        op_type == OpTypeCreate(op_byte)
    IN IF op_type = 1 THEN [header EXCEPT !.tail = <<4, "U", "N">>]
       ELSE IF op_type = 2 THEN [header EXCEPT !.tail = <<4>>]
       ELSE IF op_type = 5 THEN [header EXCEPT !.tail = <<104, 105>>]
       ELSE header

\* the packets given to the codec
CodecPackets ==
    { WellFormed(dest, ttl, op_byte) :
        dest \in {"X", "Z"}, ttl \in {0, 255}, op_byte \in OpBytes }

\* str.ljust(6, " "), of a string given by its characters
Ljust(s) == IF Len(s) >= 6 THEN s ELSE s \o [i \in 1..(6 - Len(s)) |-> " "]

RECURSIVE Lstrip(_)
Lstrip(s) == IF s # <<>> /\ Head(s) = " " THEN Lstrip(Tail(s)) ELSE s

RECURSIVE Rstrip(_)
Rstrip(s) ==
    IF s # <<>> /\ s[Len(s)] = " " THEN Rstrip(SubSeq(s, 1, Len(s) - 1)) ELSE s

\* str.strip()
Strip(s) == Rstrip(Lstrip(s))

\* the loop of encode_netrom_nodes over nodes.destinations, a call (seven
\* bytes) taken as one element
RECURSIVE EncodeDestinations(_)
EncodeDestinations(dests) ==
    IF dests = <<>> THEN <<>>
    ELSE LET dest == Head(dests)
         IN <<dest.dest_node>> \o Ljust(dest.dest_alias)
              \o <<dest.best_neighbor, dest.quality % 256>>
              \o EncodeDestinations(Tail(dests))

encode_netrom_nodes(nodes) ==
    <<255>> \o Ljust(nodes.sending_alias) \o EncodeDestinations(nodes.destinations)

\* the while loop of parse_netrom_nodes: StopIteration ends it
RECURSIVE ParseDestinations(_)
ParseDestinations(data) ==
    IF Len(data) < 9 THEN <<>>
    ELSE << NodeDestination(data[1], Strip(SubSeq(data, 2, 7)), data[8], data[9]) >>
           \o ParseDestinations(SubSeq(data, 10, Len(data)))

\* the value of a call that raised
Raised == [raised |-> TRUE]

\* parse_netrom_nodes, of data holding the marker and a whole alias
parse_netrom_nodes(data) ==
    IF data[1] # 255 THEN Raised
    ELSE NetRomNodes(Strip(SubSeq(data, 2, 7)),
                     ParseDestinations(SubSeq(data, 8, Len(data))))

\* aliases of at most 6 characters without surrounding spaces
Aliases == { <<>>, <<"A">>, <<"A", " ", "B">>, <<"A", "B", "C", "D", "E", "F">> }

\* the records of the NODES broadcasts given to the codec
CodecRecords ==
    { NodeDestination(dest_node, dest_alias, "W", quality) :
        dest_node \in {"Y", "Z"}, dest_alias \in Aliases, quality \in {0, 255} }

\* the NODES broadcasts given to the codec: with no record, one and two
CodecNodes ==
    { NetRomNodes(a, <<>>) : a \in Aliases }
    \cup { NetRomNodes(<<"H", "O", "M", "E">>, <<r>>) : r \in CodecRecords }
    \cup { NetRomNodes(<<"H", "O", "M", "E">>,
                       <<NodeDestination("X", <<"X">>, "X", 192), r>>) :
             r \in CodecRecords }

\* parse_netrom_packet(p.buffer)
CodecPacket ==
    /\ \E p \in CodecPackets :
          codec_last' = [op |-> "packet", value |-> p, data |-> Buffer(p),
                         result |-> parse_netrom_packet(Buffer(p))]
    /\ UNCHANGED <<rtVars, qVars, drvVars, netVars, dlVars, muxVars, nlVars>>

\* parse_netrom_nodes(encode_netrom_nodes(n))
CodecNodesCall ==
    /\ \E n \in CodecNodes :
          codec_last' = [op |-> "nodes", value |-> n, data |-> encode_netrom_nodes(n),
                         result |-> parse_netrom_nodes(encode_netrom_nodes(n))]
    /\ UNCHANGED <<rtVars, qVars, drvVars, netVars, dlVars, muxVars, nlVars>>

CodecNext == CodecPacket \/ CodecNodesCall

SpecCodec == Init /\ [][CodecNext]_vars

\* C24: parse_netrom_packet, given a whole header whose op byte has a low
\* nibble that is none of the six known opcodes, returns a packet whose
\* op_type() is Unknown and whose op_byte is the byte received, not an absent
\* value.
C24_UnknownOpcode ==
    (codec_last.op = "packet" /\ codec_last.data[8] % 16 \notin 1..6) =>
        /\ codec_last.result # None
        /\ codec_last.result.op_byte = codec_last.data[8]
        /\ OpTypeCreate(codec_last.result.op_byte) = 0

\* C25: parse_netrom_packet(p.buffer) = p for every well-formed packet p of
\* any opcode and any flag bits, and parse_netrom_nodes(encode_netrom_nodes(n))
\* = n for every NODES broadcast n with aliases of at most 6 characters without
\* surrounding spaces and qualities in 0..255.
C25_RoundTrip ==
    codec_last.op \in {"packet", "nodes"} => codec_last.result = codec_last.value

----------------------------------------------------------------------------
(* NetRomNetwork *)

\* the loop of write_packet over possible_routes: neighbor.port is read outside
\* the try block, the data link is called inside it. failing holds the ports
\* whose data link raises on the DL_DATA event.
RECURSIVE TryRoutes(_, _, _, _, _, _)
TryRoutes(hops, nb, dls, failing, buf, tried) ==
    IF hops = <<>>
    THEN [result |-> "false", tried |-> tried, accepted |-> <<>>]
    ELSE IF Head(hops) \notin DOMAIN nb
    THEN [result |-> "raise", tried |-> tried, accepted |-> <<>>]
    ELSE LET neighbor == nb[Head(hops)]
             event == [port |-> neighbor.port, remote_call |-> neighbor.call,
                       data |-> buf]
         IN IF neighbor.port \notin DOMAIN dls
            THEN TryRoutes(Tail(hops), nb, dls, failing, buf, tried)
            ELSE IF neighbor.port \in failing
            THEN TryRoutes(Tail(hops), nb, dls, failing, buf, Append(tried, event))
            ELSE [result |-> "true", tried |-> Append(tried, event),
                  accepted |-> <<event>>]

\* NetRomNetwork.write_packet: what it returns ("raise" for an exception that
\* leaves it) and the DL_DATA events the data links were given and took
write_packet(nb, ds, dls, failing, packet) ==
    LET possible_routes == route(nb, ds, packet.dest)
        r == TryRoutes(possible_routes, nb, dls, failing, Buffer(packet), <<>>)
    IN [routes |-> possible_routes, result |-> r.result, tried |-> r.tried,
        accepted |-> r.accepted]

\* the NET/ROM packets that arrive: Information and InformationAcknowledge
\* packets for us and for others, with and without hops left
NetPackets ==
    { NetRomPacket(dest, "S", ttl, 1, 1, 0, 0, 6) : dest \in {NodeCall, "X", "Z"}, ttl \in {0, 2} }
    \cup { [NetRomPacket("Z", "S", 7, 1, 1, 0, 0, 5) EXCEPT !.tail = <<104, 105>>],
           NetRomPacket("Q", "S", 7, 1, 1, 0, 0, 6) }

\* NetRomNetwork.bind_data_link
NetBind ==
    /\ net_ops < MaxNetOps
    /\ \E port \in Ports :
          /\ data_links' = MapPut(data_links, port, [link_call |-> NodeCall])
          /\ our_calls' = Append(our_calls, NodeCall)
    /\ net_ops' = net_ops + 1
    /\ UNCHANGED <<neighbors, destinations, ops, sinceUpdate, installed, last,
                   net_last, qVars, drvVars, extVars>>

\* NetRomNetwork._update_nodes: update_routes(heard_from, 0, nodes) under
\* route_lock, for a NODES broadcast that arrived over the data link bound to
\* port heard_on
NetUpdateNodes ==
    /\ net_ops < MaxNetOps
    /\ DOMAIN data_links # {}
    /\ \E heard_on \in DOMAIN data_links, heard_from \in Stations, nodes \in Adverts :
          LET t == update_routes(neighbors, destinations, our_calls,
                                 heard_from, 0, nodes)
          IN /\ neighbors' = t.neighbors
             /\ destinations' = t.destinations
             /\ last' = [op |-> "update", heard_from |-> heard_from,
                         port |-> 0, nodes |-> nodes, heard_on |-> heard_on]
    /\ net_ops' = net_ops + 1
    /\ UNCHANGED <<our_calls, ops, sinceUpdate, installed, data_links, net_last,
                   qVars, drvVars, extVars>>

\* NetRomNetwork.handle(port, remote_call, data), called by the data link
\* bound to port
NetHandle ==
    /\ \E port \in DOMAIN data_links, p \in NetPackets,
          failing \in SUBSET DOMAIN data_links :
          LET netrom_packet == parse_netrom_packet(Buffer(p))
          IN IF netrom_packet.dest = NodeCall
             THEN net_last' = [op |-> "handle", port |-> port,
                               packet |-> netrom_packet, forwarded |-> FALSE]
             ELSE net_last' = [op |-> "handle", port |-> port,
                               packet |-> netrom_packet, forwarded |-> TRUE,
                               write |-> write_packet(neighbors, destinations,
                                                      data_links, failing,
                                                      netrom_packet)]
    /\ UNCHANGED <<rtVars, data_links, net_ops, qVars, drvVars, extVars>>

NetNext == NetBind \/ NetUpdateNodes \/ NetHandle

\* a NetRomNetwork as constructed: no data link bound, our_calls empty
NetInit == InitWith(<<>>)

SpecNet == NetInit /\ [][NetNext]_vars

\* C4: a packet that handle forwards is written out with ttl one lower than it
\* arrived with, and a packet that arrived with ttl 0 is passed to no data link.
C4_TtlHonoured ==
    (net_last.op = "handle" /\ net_last.forwarded) =>
        /\ \A i \in DOMAIN net_last.write.tried :
              parse_netrom_packet(net_last.write.tried[i].data).ttl
                  = net_last.packet.ttl - 1
        /\ net_last.packet.ttl = 0 => net_last.write.tried = <<>>

\* C5: write_packet returns a boolean and never raises; it tries the hops in
\* the order of route(), returns true with exactly one data link having taken
\* the packet, or false with none having taken it.
C5_WritePacketTotal ==
    (net_last.op = "handle" /\ net_last.forwarded) =>
        LET w == net_last.write
        IN /\ w.result \in {"true", "false"}
           /\ w.result = "true" => Len(w.accepted) = 1
           /\ w.result = "false" => Len(w.accepted) = 0

\* C30: the neighbor entry created for the station a NODES broadcast was
\* heard from records the port the broadcast was received on, and a packet
\* later routed via that station is offered to the data link bound to that
\* port and to no other.
C30_NeighborPort ==
    /\ [][(last'.op = "update" /\ net_ops' = net_ops + 1
           /\ last'.heard_from \notin DOMAIN neighbors)
          => neighbors'[last'.heard_from].port = last'.heard_on]_vars
    /\ []((net_last.op = "handle" /\ net_last.forwarded /\ last.op = "update"
           /\ DOMAIN neighbors = {last.heard_from}
           /\ net_last.write.routes = <<last.heard_from>>)
          => \A i \in DOMAIN net_last.write.tried :
                net_last.write.tried[i].port = last.heard_on)

----------------------------------------------------------------------------
(* LinkMultiplexer *)

\* add_link is called while the counter is below MaxLinks
MaxLinks == 2

\* register_device calls made in one run
MaxDevices == 2

\* the threads that call the multiplexer
Threads == {"t1", "t2"}
NoThread == "none"

\* the L2Protocol objects, each the L2 of one device
L2s == { [name |-> "l2a", device_id |-> 0], [name |-> "l2b", device_id |-> 1] }

\* L2Protocol.get_device_id
get_device_id(l2_protocol) == l2_protocol.device_id

\* the link ids callers ask about
LinkIds == 0..MaxLinks

\* an L2Protocol object compared with a key of self.queues, a device id: the
\* object equals no int
ObjectEq(l2_protocol, key) == FALSE

\* "l2_protocol not in self.queues.keys()"
NotInKeys(l2_protocol, qs) == \A key \in DOMAIN qs : ~ObjectEq(l2_protocol, key)

\* a counter that gives the same value again
CounterNext_stuck(c) == c

\* next(self.link_id_counter) of itertools.count(): the counter left
CounterNext(c) == c + 1

\* LinkMultiplexer.get_link
get_link(ll, link_id) == MapGet(ll, link_id, None)

\* get_queue looking the queue up under the link id
get_queue_by_link(ll, qs, link_id) ==
    LET l2 == MapGet(ll, link_id, None)
    IN IF l2 # None THEN MapGet(qs, link_id, None) ELSE None

\* LinkMultiplexer.get_queue
get_queue(ll, qs, link_id) ==
    LET l2 == MapGet(ll, link_id, None)
    IN IF l2 # None THEN MapGet(qs, get_device_id(l2), None) ELSE None

\* the largest link id returned so far, -1 if none
LastReturned ==
    IF DOMAIN returned = {} THEN -1
    ELSE CHOOSE m \in DOMAIN returned : \A x \in DOMAIN returned : x <= m

\* LinkMultiplexer.register_device, under the lock
MuxRegisterDevice ==
    /\ mux_lock = NoThread
    /\ queues_made < MaxDevices
    /\ \E l2_protocol \in L2s :
          IF NotInKeys(l2_protocol, queues)
          THEN /\ queues' = MapPut(queues, get_device_id(l2_protocol),
                                   [queue |-> queues_made + 1])
               /\ l2_devices' = MapPut(l2_devices, get_device_id(l2_protocol),
                                       l2_protocol)
               /\ queues_made' = queues_made + 1
               /\ mux_last' = [op |-> "register_device", l2_protocol |-> l2_protocol]
          ELSE UNCHANGED <<queues, l2_devices, queues_made, mux_last>>
    /\ UNCHANGED <<link_id_counter, logical_links, mux_lock, mux_thr, returned, removed>>
    /\ UNCHANGED <<rtVars, qVars, drvVars, netVars, dlVars, nlVars, codecVars>>

\* a thread calls add_link(l2_protocol)
MuxAddCall(t) ==
    /\ mux_thr[t].pc = "idle"
    /\ link_id_counter < MaxLinks
    /\ \E l2_protocol \in L2s :
          mux_thr' = [mux_thr EXCEPT ![t] = [pc |-> "lock", l2_protocol |-> l2_protocol,
                                             link_id |-> -1, floor |-> LastReturned]]
    /\ UNCHANGED <<link_id_counter, l2_devices, queues, logical_links, mux_lock,
                   returned, removed, queues_made, mux_last>>
    /\ UNCHANGED <<rtVars, qVars, drvVars, netVars, dlVars, nlVars, codecVars>>

\* add_link: with self.lock
MuxAddLock(t) ==
    /\ mux_thr[t].pc = "lock"
    /\ mux_lock = NoThread
    /\ mux_lock' = t
    /\ mux_thr' = [mux_thr EXCEPT ![t].pc = "next"]
    /\ UNCHANGED <<link_id_counter, l2_devices, queues, logical_links, returned,
                   removed, queues_made, mux_last>>
    /\ UNCHANGED <<rtVars, qVars, drvVars, netVars, dlVars, nlVars, codecVars>>

\* add_link: link_id = next(self.link_id_counter)
MuxAddNext(t) ==
    /\ mux_thr[t].pc = "next"
    /\ mux_thr' = [mux_thr EXCEPT ![t].pc = "store", ![t].link_id = link_id_counter]
    /\ link_id_counter' = CounterNext(link_id_counter)
    /\ UNCHANGED <<l2_devices, queues, logical_links, mux_lock, returned, removed,
                   queues_made, mux_last>>
    /\ UNCHANGED <<rtVars, qVars, drvVars, netVars, dlVars, nlVars, codecVars>>

\* add_link: self.logical_links[link_id] = l2_protocol
MuxAddStore(t) ==
    /\ mux_thr[t].pc = "store"
    /\ logical_links' = MapPut(logical_links, mux_thr[t].link_id, mux_thr[t].l2_protocol)
    /\ mux_thr' = [mux_thr EXCEPT ![t].pc = "return"]
    /\ UNCHANGED <<link_id_counter, l2_devices, queues, mux_lock, returned, removed,
                   queues_made, mux_last>>
    /\ UNCHANGED <<rtVars, qVars, drvVars, netVars, dlVars, nlVars, codecVars>>

\* add_link: return link_id, which releases the lock
MuxAddReturn(t) ==
    /\ mux_thr[t].pc = "return"
    /\ mux_lock' = NoThread
    /\ mux_last' = [op |-> "add_link", l2_protocol |-> mux_thr[t].l2_protocol,
                    link_id |-> mux_thr[t].link_id, floor |-> mux_thr[t].floor,
                    fresh |-> mux_thr[t].link_id \notin DOMAIN returned]
    /\ returned' = MapPut(returned, mux_thr[t].link_id, mux_thr[t].l2_protocol)
    /\ mux_thr' = [mux_thr EXCEPT ![t] = [pc |-> "idle", l2_protocol |-> None,
                                           link_id |-> -1, floor |-> -1]]
    /\ UNCHANGED <<link_id_counter, l2_devices, queues, logical_links, removed,
                   queues_made>>
    /\ UNCHANGED <<rtVars, qVars, drvVars, netVars, dlVars, nlVars, codecVars>>

\* LinkMultiplexer.remove_link, under the lock: del raises KeyError for a
\* link id that is not there
MuxRemoveLink ==
    /\ mux_lock = NoThread
    /\ \E link_id \in LinkIds :
          IF link_id \in DOMAIN logical_links
          THEN /\ logical_links' = [k \in (DOMAIN logical_links) \ {link_id} |->
                                       logical_links[k]]
               /\ removed' = removed \cup {link_id}
               /\ mux_last' = [op |-> "remove_link", link_id |-> link_id,
                               raised |-> FALSE]
          ELSE /\ mux_last' = [op |-> "remove_link", link_id |-> link_id,
                               raised |-> TRUE]
               /\ UNCHANGED <<logical_links, removed>>
    /\ UNCHANGED <<link_id_counter, l2_devices, queues, mux_lock, mux_thr, returned,
                   queues_made>>
    /\ UNCHANGED <<rtVars, qVars, drvVars, netVars, dlVars, nlVars, codecVars>>

\* LinkMultiplexer.get_link, which takes no lock
MuxGetLink ==
    /\ \E link_id \in LinkIds :
          mux_last' = [op |-> "get_link", link_id |-> link_id,
                       result |-> get_link(logical_links, link_id)]
    /\ UNCHANGED <<link_id_counter, l2_devices, queues, logical_links, mux_lock,
                   mux_thr, returned, removed, queues_made>>
    /\ UNCHANGED <<rtVars, qVars, drvVars, netVars, dlVars, nlVars, codecVars>>

\* LinkMultiplexer.get_queue, which takes no lock
MuxGetQueue ==
    /\ \E link_id \in LinkIds :
          mux_last' = [op |-> "get_queue", link_id |-> link_id,
                       result |-> get_queue(logical_links, queues, link_id)]
    /\ UNCHANGED <<link_id_counter, l2_devices, queues, logical_links, mux_lock,
                   mux_thr, returned, removed, queues_made>>
    /\ UNCHANGED <<rtVars, qVars, drvVars, netVars, dlVars, nlVars, codecVars>>

MuxNext ==
    \/ MuxRegisterDevice \/ MuxRemoveLink \/ MuxGetLink \/ MuxGetQueue
    \/ \E t \in Threads :
          \/ MuxAddCall(t) \/ MuxAddLock(t) \/ MuxAddNext(t) \/ MuxAddStore(t)
          \/ MuxAddReturn(t)

SpecMux == Init /\ [][MuxNext]_vars

\* the threads that hold a link id inside add_link
Holding == { t \in Threads : mux_thr[t].pc \in {"store", "return"} }

QueueOf(link_id) ==
    IF link_id \in (DOMAIN returned) \ removed
    THEN MapGet(queues, get_device_id(returned[link_id]), None)
    ELSE None

\* a remove_link call ends
RemoveLinkStep ==
    \/ removed' # removed
    \/ mux_last'.op = "remove_link" /\ mux_last' # mux_last

\* C20: get_queue(link_id) returns the queue register_device recorded for the
\* device of the L2 that owns the link while the link exists, and none for a
\* link id that was removed or never allocated; remove_link leaves the other
\* links, the registered devices and the device queues unchanged.
C20_GetQueue ==
    /\ [](\A link_id \in LinkIds :
            (link_id \in removed \/ link_id >= link_id_counter \/ link_id \in DOMAIN returned)
                => get_queue(logical_links, queues, link_id) = QueueOf(link_id))
    /\ [][(mux_last'.op = "get_queue" /\ mux_last' # mux_last
             /\ mux_last'.link_id \notin { mux_thr[t].link_id : t \in Holding })
            => mux_last'.result = QueueOf(mux_last'.link_id)]_vars
    /\ [][RemoveLinkStep =>
            /\ \A k \in (DOMAIN logical_links) \ {mux_last'.link_id} :
                  k \in DOMAIN logical_links' /\ logical_links'[k] = logical_links[k]
            /\ DOMAIN logical_links' \subseteq DOMAIN logical_links
            /\ UNCHANGED <<l2_devices, queues, link_id_counter>>]_vars

\* get_queue returned the queue of device 1 for link 0 after another link was
\* removed
C20_Witness ==
    /\ mux_last.op = "get_queue"
    /\ mux_last.link_id = 0
    /\ mux_last.result # None
    /\ mux_last.result = MapGet(queues, 1, None)
    /\ removed # {}

\* the number of L2L3Drivers scheduler.submit was given: register_device
\* submits one with each queue it makes
DriversSubmitted == queues_made

\* C27: each registered device has exactly one queue and one driver
\* submitted, and register_device for an L2 whose device is registered neither
\* replaces the queue of the device nor submits another driver.
C27_OneDriver ==
    /\ [](DriversSubmitted = Cardinality(DOMAIN queues))
    /\ [][\A device_id \in DOMAIN queues :
            queues'[device_id] = queues[device_id]]_vars

----------------------------------------------------------------------------
(* The L2L3Driver of a device whose links are added and removed *)

\* the network layer offers a payload addressed to link 0 while that link exists
LinkOffer ==
    /\ 0 \in DOMAIN logical_links
    /\ Offer(DrvQoS)
    /\ UNCHANGED drvVars

\* the links are added by one thread, and the L2 accepts what it is sent
LinkNext ==
    \/ LinkOffer \/ MuxRemoveLink
    \/ MuxAddCall("t1") \/ MuxAddLock("t1") \/ MuxAddNext("t1") \/ MuxAddStore("t1")
    \/ MuxAddReturn("t1")
    \/ DrvTake \/ DrvSend \/ DrvLeave \/ DrvEnd

SpecLink == Init /\ [][LinkNext]_vars

\* C21: once remove_link(id) has returned, the driver passes no payload whose
\* link_id is id to L2.send_packet, payloads queued before the removal included.
C21_RemovedLinkDiscarded ==
    [][drv_calls' = drv_calls + 1 => drv_payload.link_id \notin removed]_vars

----------------------------------------------------------------------------
(* DataLinkManager *)

\* frames put on inbound in one run
MaxFrames == 2

\* write_packet calls made by the upper layers in one run
MaxWrites == 2

\* maxsize of the outbound queue the manager is constructed with
OutboundSize == 1

\* DataLinkManager.link_call and link_port
link_call == NodeCall
link_port == 0

\* the protocols handlers are registered under
L3Protocols == {"NetRom", "NoLayer3"}

\* the L3 handlers: a NetRomNetwork, and a handler whose maybe_handle_special
\* takes (port, packet) as _loop calls it
L3Handlers == {"NetRomNetwork", "Handler"}

\* d[k] = v of an insertion-ordered dict: an existing key keeps its place
DictPut(d, k, v) ==
    IF \E i \in DOMAIN d : d[i].key = k
    THEN [i \in DOMAIN d |-> IF d[i].key = k THEN [key |-> k, value |-> v] ELSE d[i]]
    ELSE Append(d, [key |-> k, value |-> v])

\* d.values()
DictValues(d) == [i \in DOMAIN d |-> d[i].value]

\* a frame of the inbound queue: whether frame.data decodes and the dest of
\* the packet it holds, here an I frame from X; after_stop tells whether stop()
\* had been called when the frame was put
FrameData(ok, dest, after_stop) ==
    [ok |-> ok, dest |-> dest, after_stop |-> after_stop, type |-> "IFrame",
     protocol |-> "NoLayer3", source |-> "X", info |-> NetRomNodes("", <<>>)]

\* a frame holding UIFrame.ui_frame(AX25Call("NODES"), source, ..., protocol,
\* info), info given by the NODES it encodes
NodesFrame(source, protocol, nodes, after_stop) ==
    [FrameData(TRUE, "NODES", after_stop) EXCEPT
        !.type = "UIFrame", !.protocol = protocol, !.source = source, !.info = nodes]

\* the NODES broadcast of the frames delivered
HeardNodes == NetRomNodes("ALPHA", << NodeDestination("Z", "ZED", "W", 192) >>)

\* the frames a device delivers
InboundFrames(after_stop) ==
    { FrameData(TRUE, link_call, after_stop), FrameData(TRUE, "X", after_stop),
      FrameData(FALSE, "", after_stop),
      NodesFrame("X", "NetRom", HeardNodes, after_stop) }

\* NetRomNetwork.maybe_handle_special(packet): what it returns and the
\* _update_nodes tasks it creates
maybe_handle_special(packet) ==
    IF packet.type = "UIFrame" /\ packet.protocol = "NetRom" /\ packet.dest = "NODES"
    THEN [result |-> "false",
          tasks |-> << [heard_from |-> packet.source, nodes |-> packet.info] >>]
    ELSE [result |-> "true", tasks |-> <<>>]

\* DataLinkFrame(self.link_port, packet.buffer, 0); full_at_call tells whether
\* outbound was full when write_packet was called
DataLinkFrame(port, full_at_call) == [port |-> port, full_at_call |-> full_at_call]

\* l3.maybe_handle_special(frame.port, packet): NetRomNetwork.maybe_handle_special
\* takes the packet alone, so the call with two arguments raises TypeError;
\* another handler returns answer
CallSpecial(l3_handler, answer) ==
    IF l3_handler = "NetRomNetwork" THEN "raise"
    ELSE IF answer THEN "true" ELSE "false"

\* the for loop over self.l3.values(): the handlers called and what each call
\* gave, up to the first that did not return true
RECURSIVE OfferSpecial(_, _, _)
OfferSpecial(handlers, answers, offered) ==
    IF handlers = <<>> THEN offered
    ELSE LET r == [handler |-> Head(handlers),
                   result |-> CallSpecial(Head(handlers), Head(answers))]
         IN IF r.result = "true"
            THEN OfferSpecial(Tail(handlers), Tail(answers), Append(offered, r))
            ELSE Append(offered, r)

\* the _update_nodes tasks created by the calls of the for loop: a call that
\* raised before entering the method created none
RECURSIVE TasksOf(_, _)
TasksOf(offered, packet) ==
    IF offered = <<>> THEN <<>>
    ELSE (IF Head(offered).handler = "NetRomNetwork" /\ Head(offered).result # "raise"
          THEN maybe_handle_special(packet).tasks
          ELSE <<>>) \o TasksOf(Tail(offered), packet)

\* _loop without its finally clause: task_done is not called when decoding fails
loop_nofinally(frame, handlers, answers) ==
    IF ~frame.ok
    THEN [decoded |-> FALSE, offered |-> <<>>, handled |-> 0, task_done |-> 0]
    ELSE LET offered == OfferSpecial(handlers, answers, <<>>)
             should_continue == \A i \in DOMAIN offered : offered[i].result = "true"
         IN [decoded |-> TRUE, offered |-> offered,
             handled |-> IF should_continue /\ frame.dest = link_call THEN 1 ELSE 0,
             task_done |-> 1]

\* DataLinkManager._loop once inbound.get() has returned frame: whether the
\* frame decoded, the handlers offered the packet, the number of
\* state_machine.handle_packet calls and of inbound.task_done calls
loop(frame, handlers, answers) ==
    IF ~frame.ok
    THEN [decoded |-> FALSE, offered |-> <<>>, handled |-> 0, task_done |-> 1]
    ELSE LET offered == OfferSpecial(handlers, answers, <<>>)
             should_continue == \A i \in DOMAIN offered : offered[i].result = "true"
         IN [decoded |-> TRUE, offered |-> offered,
             handled |-> IF should_continue /\ frame.dest = link_call THEN 1 ELSE 0,
             task_done |-> 1]

\* DataLinkManager.add_l3_handler, made before start()
DlAddHandler ==
    /\ dl_pc = "new"
    /\ \E protocol \in L3Protocols, l3_handler \in L3Handlers :
          l3' = DictPut(l3, protocol, l3_handler)
    /\ UNCHANGED <<stopped, inbound, unfinished, outbound, put_tasks, dl_pc, dl_last,
                   w_last, frames_put, writes>>
    /\ UNCHANGED <<rtVars, qVars, drvVars, netVars, muxVars, nlVars, codecVars>>

\* DataLinkManager.start is called
DlStart ==
    /\ dl_pc = "new"
    /\ dl_pc' = "test"
    /\ UNCHANGED <<l3, stopped, inbound, unfinished, outbound, put_tasks, dl_last,
                   w_last, frames_put, writes>>
    /\ UNCHANGED <<rtVars, qVars, drvVars, netVars, muxVars, nlVars, codecVars>>

\* DataLinkManager.stop
DlStop ==
    /\ ~stopped
    /\ stopped' = TRUE
    /\ UNCHANGED <<l3, inbound, unfinished, outbound, put_tasks, dl_pc, dl_last,
                   w_last, frames_put, writes>>
    /\ UNCHANGED <<rtVars, qVars, drvVars, netVars, muxVars, nlVars, codecVars>>

\* the device puts a frame on inbound
DlPut ==
    /\ frames_put < MaxFrames
    /\ \E frame \in InboundFrames(stopped) :
          inbound' = Append(inbound, frame)
    /\ unfinished' = unfinished + 1
    /\ frames_put' = frames_put + 1
    /\ UNCHANGED <<l3, stopped, outbound, put_tasks, dl_pc, dl_last, w_last, writes>>
    /\ UNCHANGED <<rtVars, qVars, drvVars, netVars, muxVars, nlVars, codecVars>>

\* start: while not self._stopped
DlTest ==
    /\ dl_pc = "test"
    /\ dl_pc' = IF stopped THEN "returned" ELSE "get"
    /\ UNCHANGED <<l3, stopped, inbound, unfinished, outbound, put_tasks, dl_last,
                   w_last, frames_put, writes>>
    /\ UNCHANGED <<rtVars, qVars, drvVars, netVars, muxVars, nlVars, codecVars>>

\* _loop: await self.inbound.get() returns once a frame is queued, and the rest
\* of _loop runs without suspending; a state machine that handles the packet
\* may answer it through write_packet
DlLoop ==
    /\ dl_pc = "get"
    /\ inbound # <<>>
    /\ \E answers \in [1..Len(l3) -> BOOLEAN], reply \in BOOLEAN :
          LET frame == Head(inbound)
              r == loop(frame, DictValues(l3), answers)
              answered == r.handled = 1 /\ reply /\ writes < MaxWrites
          IN /\ dl_last' = [op |-> "loop", frame |-> frame, decoded |-> r.decoded,
                            offered |-> r.offered, handled |-> r.handled,
                            task_done |-> r.task_done,
                            after_failure |-> (dl_last.op = "loop" /\ ~dl_last.decoded)]
             /\ unfinished' = unfinished - r.task_done
             /\ put_tasks' = IF answered
                             THEN Append(put_tasks,
                                         DataLinkFrame(link_port,
                                                       Len(outbound) >= OutboundSize))
                             ELSE put_tasks
             /\ writes' = IF answered THEN writes + 1 ELSE writes
             /\ update_tasks' = update_tasks \o TasksOf(r.offered, frame)
    /\ inbound' = Tail(inbound)
    /\ dl_pc' = "test"
    /\ UNCHANGED <<l3, stopped, outbound, w_last, frames_put>>
    /\ UNCHANGED <<route_lock, bc_pc, bc_rounds, nl_made, nl_last>>
    /\ UNCHANGED <<rtVars, qVars, drvVars, netVars, muxVars, codecVars>>

\* DataLinkManager.write_packet: asyncio.create_task(self.outbound.put(frame)),
\* and the function returns no value
DlWritePacket ==
    /\ writes < MaxWrites
    /\ LET frame == DataLinkFrame(link_port, Len(outbound) >= OutboundSize)
       IN /\ put_tasks' = Append(put_tasks, frame)
          /\ w_last' = [op |-> "write_packet", frame |-> frame, returned |-> None]
    /\ writes' = writes + 1
    /\ UNCHANGED <<l3, stopped, inbound, unfinished, outbound, dl_pc, dl_last, frames_put>>
    /\ UNCHANGED <<rtVars, qVars, drvVars, netVars, muxVars, nlVars, codecVars>>

\* a task of outbound.put(frame) ends: put waits until the queue has room
DlPutTask ==
    /\ Len(outbound) < OutboundSize
    /\ \E i \in DOMAIN put_tasks :
          /\ outbound' = Append(outbound, put_tasks[i])
          /\ put_tasks' = SubSeq(put_tasks, 1, i - 1)
                            \o SubSeq(put_tasks, i + 1, Len(put_tasks))
    /\ UNCHANGED <<l3, stopped, inbound, unfinished, dl_pc, dl_last, w_last,
                   frames_put, writes>>
    /\ UNCHANGED <<rtVars, qVars, drvVars, netVars, muxVars, nlVars, codecVars>>

\* the device takes a frame from outbound
DlOutGet ==
    /\ outbound # <<>>
    /\ outbound' = Tail(outbound)
    /\ UNCHANGED <<l3, stopped, inbound, unfinished, put_tasks, dl_pc, dl_last, w_last,
                   frames_put, writes>>
    /\ UNCHANGED <<rtVars, qVars, drvVars, netVars, muxVars, nlVars, codecVars>>

DlNext ==
    \/ DlAddHandler \/ DlStart \/ DlStop \/ DlPut \/ DlTest \/ DlLoop
    \/ DlWritePacket \/ DlPutTask \/ DlOutGet

SpecDL == Init /\ [][DlNext]_vars

\* the event loop runs a coroutine that is ready to run
SpecDLFair == SpecDL /\ WF_vars(DlTest) /\ WF_vars(DlLoop)

\* C12: _loop offers a decoded packet to the registered handlers in their
\* order and stops only at a handler that claims it (returns false): the
\* handlers after the claiming one are not called and the state machine is not
\* given the packet.
C12_HandlerOrder ==
    (dl_last.op = "loop" /\ dl_last.decoded) =>
        LET handlers == DictValues(l3)
            offered == dl_last.offered
            n == Len(offered)
        IN /\ n <= Len(handlers)
           /\ \A i \in 1..n : offered[i].handler = handlers[i]
           /\ \A i \in 1..n : offered[i].result = "false" => i = n
           /\ n < Len(handlers) => (n > 0 /\ offered[n].result = "false")
           /\ (n > 0 /\ offered[n].result = "false") => dl_last.handled = 0

\* no handler claimed the packet of the last _loop call
Unclaimed == \A i \in DOMAIN dl_last.offered : dl_last.offered[i].result # "false"

\* C13: a decoded packet that no handler claims is passed to the state machine
\* exactly once if its dest is link_call and not at all otherwise, whatever
\* handlers are registered.
C13_Dispatch ==
    (dl_last.op = "loop" /\ dl_last.decoded /\ Unclaimed) =>
        dl_last.handled = IF dl_last.frame.dest = link_call THEN 1 ELSE 0

\* the step of _loop that takes a frame whose decoding fails
TakesUndecodable == dl_pc = "get" /\ dl_pc' = "test" /\ ~Head(inbound).ok

\* C14: a frame whose decoding fails is discarded: no handler and no state
\* machine is called for it, nothing is written to outbound, it is marked done
\* on inbound once, and start() goes on with the frames that follow (it returns
\* only when stopped).
C14_DecodeFailure ==
    /\ [](dl_pc = "returned" => stopped)
    /\ [][TakesUndecodable =>
            /\ dl_last'.offered = <<>>
            /\ dl_last'.handled = 0
            /\ dl_last'.task_done = 1
            /\ unfinished' = unfinished - 1
            /\ inbound' = Tail(inbound)
            /\ UNCHANGED <<l3, stopped, outbound, put_tasks, w_last, writes>>
            /\ UNCHANGED update_tasks]_vars

\* a frame for link_call was handled by the state machine right after a frame
\* that did not decode
C14_Witness ==
    /\ dl_last.op = "loop"
    /\ dl_last.after_failure
    /\ dl_last.decoded
    /\ dl_last.handled = 1
    /\ unfinished = 0

\* C15: write_packet called with outbound full tells its caller that the frame
\* was not accepted, and a frame written while outbound was full is never put
\* on outbound.
C15_BackPressure ==
    /\ (w_last.op = "write_packet" /\ w_last.frame.full_at_call)
          => w_last.returned # None
    /\ \A i \in DOMAIN outbound : ~outbound[i].full_at_call

\* C16: no frame put on inbound after stop() was called is taken by _loop.
C16_StopObserved ==
    dl_last.op = "loop" => ~dl_last.frame.after_stop

\* C17: once stop() has been called while start() is running, start()
\* eventually returns, even if no frame arrives.
C17_StopReturns ==
    (stopped /\ dl_pc \in {"test", "get"}) ~> (dl_pc = "returned")

\* every handler registered is the NetRomNetwork
OnlyNetRomNetwork == l3 # <<>> /\ \A i \in DOMAIN l3 : l3[i].value = "NetRomNetwork"

\* the last _loop call decoded a frame with the NetRomNetwork as the handler
TookPacket == dl_last.op = "loop" /\ dl_last.decoded /\ OnlyNetRomNetwork

\* the frame of the last _loop call is a UI frame to NODES of protocol NET/ROM
IsNodes == maybe_handle_special(dl_last.frame).result = "false"

\* C23: a UI frame to NODES of protocol NET/ROM that arrives on a
\* DataLinkManager whose handler is the NetRomNetwork is claimed by
\* maybe_handle_special (it returns false, and the state machine is not given
\* the frame) and in the end update_routes is applied for the packet's source;
\* for any other packet maybe_handle_special returns true and no update is
\* scheduled.
C23_NodesIngest ==
    /\ []((TookPacket /\ IsNodes) =>
            /\ dl_last.offered[Len(dl_last.offered)].result = "false"
            /\ dl_last.handled = 0)
    /\ []((TookPacket /\ ~IsNodes) =>
            \A i \in DOMAIN dl_last.offered : dl_last.offered[i].result = "true")
    /\ [][(dl_pc = "get" /\ dl_pc' = "test"
           /\ maybe_handle_special(Head(inbound)).result = "true")
          => update_tasks' = update_tasks]_vars
    /\ (TookPacket /\ IsNodes)
          ~> (last.op = "update" /\ last.heard_from = dl_last.frame.source)

----------------------------------------------------------------------------
(* The tasks of the NetRomNetwork: _update_nodes and _broadcast_nodes *)

\* maybe_handle_special calls made with the packet alone in one run
MaxTasks == 2

\* turns of the loop of _broadcast_nodes in one run
MaxRounds == 2

NoTask == "none"

\* the packets maybe_handle_special is given: UI frames to NODES of either
\* protocol, and an I frame to NODES
SpecialPackets ==
    { NodesFrame(source, protocol, nodes, FALSE) :
        source \in Stations, protocol \in L3Protocols, nodes \in Adverts }
    \cup { FrameData(TRUE, "NODES", FALSE) }

\* maybe_handle_special(packet), called while the tasks of the event loop are
\* suspended
NlSpecial ==
    /\ nl_made < MaxTasks
    /\ bc_pc = "sleep"
    /\ route_lock = NoTask
    /\ \E packet \in SpecialPackets :
          LET r == maybe_handle_special(packet)
          IN /\ update_tasks' = update_tasks \o r.tasks
             /\ nl_last' = [op |-> "maybe_handle_special", packet |-> packet,
                            result |-> r.result]
    /\ nl_made' = nl_made + 1
    /\ UNCHANGED <<route_lock, bc_pc, bc_rounds>>
    /\ UNCHANGED <<rtVars, qVars, drvVars, netVars, dlVars, muxVars, codecVars>>

\* _update_nodes: async with self.route_lock, entered by the oldest task
NlAcquire ==
    /\ update_tasks # <<>>
    /\ bc_pc = "sleep"
    /\ route_lock = NoTask
    /\ route_lock' = "update"
    /\ UNCHANGED <<update_tasks, bc_pc, bc_rounds, nl_made, nl_last>>
    /\ UNCHANGED <<rtVars, qVars, drvVars, netVars, dlVars, muxVars, codecVars>>

\* _update_nodes: update_routes(heard_from, 0, nodes) and the end of the
\* async with block
NlUpdate ==
    /\ route_lock = "update"
    /\ LET task == Head(update_tasks)
           t == update_routes(neighbors, destinations, our_calls,
                              task.heard_from, 0, task.nodes)
       IN /\ neighbors' = t.neighbors
          /\ destinations' = t.destinations
          /\ last' = [op |-> "update", heard_from |-> task.heard_from,
                      port |-> 0, nodes |-> task.nodes]
    /\ update_tasks' = Tail(update_tasks)
    /\ route_lock' = NoTask
    /\ UNCHANGED <<our_calls, ops, sinceUpdate, installed>>
    /\ UNCHANGED <<bc_pc, bc_rounds, nl_made, nl_last>>
    /\ UNCHANGED <<qVars, drvVars, netVars, dlVars, muxVars, codecVars>>

\* _broadcast_nodes wakes from its sleep: async with self.route_lock
BcAcquire ==
    /\ bc_rounds < MaxRounds
    /\ bc_pc = "sleep"
    /\ route_lock = NoTask
    /\ route_lock' = "broadcast"
    /\ bc_pc' = "prune"
    /\ bc_rounds' = bc_rounds + 1
    /\ UNCHANGED <<update_tasks, nl_made, nl_last>>
    /\ UNCHANGED <<rtVars, qVars, drvVars, netVars, dlVars, muxVars, codecVars>>

\* _broadcast_nodes: prune_routes() and the end of the async with block
BcPrune ==
    /\ bc_pc = "prune"
    /\ LET t == prune_routes(neighbors, destinations)
       IN /\ neighbors' = t.neighbors
          /\ destinations' = t.destinations
    /\ last' = [op |-> "prune"]
    /\ route_lock' = NoTask
    /\ bc_pc' = "get_nodes"
    /\ UNCHANGED <<our_calls, ops, sinceUpdate, installed>>
    /\ UNCHANGED <<update_tasks, bc_rounds, nl_made, nl_last>>
    /\ UNCHANGED <<qVars, drvVars, netVars, dlVars, muxVars, codecVars>>

\* _broadcast_nodes: nodes = self.router.get_nodes(), sent to the data links
\* bound (none here) before the sleep of nodes_interval
BcGetNodes ==
    /\ bc_pc = "get_nodes"
    /\ last' = [op |-> "get_nodes", nodes |-> get_nodes(destinations)]
    /\ bc_pc' = "sleep"
    /\ UNCHANGED <<neighbors, destinations, our_calls, ops, sinceUpdate, installed>>
    /\ UNCHANGED <<update_tasks, route_lock, bc_rounds, nl_made, nl_last>>
    /\ UNCHANGED <<qVars, drvVars, netVars, dlVars, muxVars, codecVars>>

LockNext == NlSpecial \/ NlAcquire \/ NlUpdate \/ BcAcquire \/ BcPrune \/ BcGetNodes

SpecLock == Init /\ [][LockNext]_vars

\* the steps in which update_routes, prune_routes and get_nodes are executed
UpdateRuns == update_tasks # <<>> /\ update_tasks' = Tail(update_tasks)
PruneRuns == bc_pc = "prune" /\ bc_pc' = "get_nodes"
GetNodesRuns == bc_pc = "get_nodes" /\ bc_pc' = "sleep"

\* C26: the NetRomNetwork executes update_routes, prune_routes and get_nodes
\* only while route_lock is held by the executing task: get_nodes never runs
\* while the lock is free or held by another task.
C26_LockDiscipline ==
    [][/\ UpdateRuns => route_lock = "update"
       /\ PruneRuns => route_lock = "broadcast"
       /\ GetNodesRuns => route_lock = "broadcast"]_vars

====
